---- MODULE Spec2Model ----
(***************************************************************************)
(* Model of bin/scatter-gather.js: the request aggregator                  *)
(* (exports.aggregator) and the responder wrapper (exports.response).      *)
(*                                                                         *)
(* The aggregator is checked under Spec, the responder under SpecR.  Both  *)
(* run on a single-threaded event loop: one action is one callback (a      *)
(* timer, an event delivery, a promise reaction) or one call of the API.   *)
(***************************************************************************)
EXTENDS Integers, Sequences, FiniteSets, TLC

\* ---------------------------------------------------------------- bounds
MaxReq   == 2   \* accepted aggregator calls
MaxWait  == 1   \* largest configured minWait / maxWait (ticks)
MaxRecs  == 2   \* records in one delivered event
MaxUnsub == 1   \* calls of unsubscribe()
MaxBatch == 3   \* records in the event handed to the responder

\* ------------------------------------------------------------- vocabulary
None      == "none"
Senders   == {"A", "B"}               \* ScatherFunctionName of responders
Payloads  == {"p", "q"}               \* record.message
ReqIds    == 1 .. MaxReq              \* ScatherRequestId, in order of uuid()
ExpectsChoices == {<<>>, <<"A">>, <<"A", "B">>}
UnsubscribedError == "Request aggregator has been unsubscribed"

\* Records as EventRecord.extractScatherRecords hands them to its predicate.
ResponseRecords ==
    [dir : {"response"}, fn : Senders, id : ReqIds, msg : Payloads]
RequestRecords ==
    [dir : {"request"}, fn : {"agg"}, id : ReqIds, msg : {"p"}]
Records == ResponseRecords \cup RequestRecords
Events == UNION {[1 .. n -> Records] : n \in 1 .. MaxRecs}

VARIABLES
    config,      \* normalized configuration: expects, minWait, maxWait
    subscribed,  \* aggregator.subscribed
    listening,   \* runGatherers is registered for responseArn
    gatherers,   \* the gatherers array (request ids, in push order)
    active,      \* per call: deferred, missing, result, minTimeoutReached
    timers,      \* per call: the two setTimeout timers
    published,   \* request events fired on EventInterface.PUBLISH
    unsubs,      \* per unsubscribe() call: the promises it waits for
    lastCall,    \* what the latest refused aggregator call handed back
    heard,       \* history: replies delivered to each request while pending
    late,        \* history: a reply was delivered to a request that had settled
    resolvedBy,  \* history: the callback that settled each request
    \* the responder: one call of the function exports.response returns
    handlerTakesCallback,  \* the handler declares three parameters or more
    entry,       \* the call: its arguments, what it returned, its callback
    matched,     \* the request records extracted from the event
    deferreds,   \* per record: the deferred of its handling
    invoked,     \* per record: calls of the handler
    later,       \* per record: what the handler still does asynchronously
    reacted,     \* per record: the then() of its deferred has run
    signalled,   \* history, per record: what its handler has done so far
    replies,     \* response events fired on EventInterface.PUBLISH, each
                 \* with the record it was fired for (of, history)
    promiseAll   \* Promise.all(promises)

aggVars == <<config, subscribed, listening, gatherers, active, timers,
             published, unsubs, lastCall, heard, late,
                   resolvedBy>>

respVars == <<handlerTakesCallback, entry, matched, deferreds, invoked,
              later, reacted, signalled, replies, promiseAll>>

vars == <<aggVars, respVars>>

\* ---------------------------------------------------------------- helpers
EmptyResult == [s \in Senders |-> None]

Keys(res) == {s \in Senders : res[s] # None}

\* Array.prototype.indexOf, 1-based; 0 when absent (JS: -1).
IndexOf(seq, x) ==
    IF \E i \in 1 .. Len(seq) : seq[i] = x
    THEN CHOOSE i \in 1 .. Len(seq) :
             seq[i] = x /\ \A j \in 1 .. (i - 1) : seq[j] # x
    ELSE 0

\* Array.prototype.splice(index, 1)
Splice(seq, i) == SubSeq(seq, 1, i - 1) \o SubSeq(seq, i + 1, Len(seq))

Range(seq) == {seq[i] : i \in 1 .. Len(seq)}

\* The closure of a call that has not been made.
Idle ==
    [promise |-> "unset", value |-> EmptyResult, missing |-> <<>>,
     result |-> EmptyResult, minTimeoutReached |-> FALSE,
     cleaned |-> FALSE]

NoTimers == [min |-> "unset", max |-> "unset", minLeft |-> 0, maxLeft |-> 0]

NoCall ==
    [callback |-> FALSE, returned |-> None, error |-> None, cbError |-> None]

NoEntry ==
    [called |-> FALSE, hasCallback |-> FALSE, returned |-> None,
     cbCalls |-> 0, cbErr |-> None, cbData |-> None, cbNull |-> FALSE,
     settled |-> FALSE]

Unset == [promise |-> "unset", value |-> None]

\* The responder before the returned function is called.
RespIdle ==
    /\ entry = NoEntry
    /\ matched = <<>>
    /\ deferreds = <<>>
    /\ invoked = <<>>
    /\ later = <<>>
    /\ reacted = <<>>
    /\ signalled = <<>>
    /\ replies = <<>>
    /\ promiseAll = Unset

Init ==
    /\ handlerTakesCallback = TRUE
    /\ RespIdle
    /\ config \in {c \in [expects : ExpectsChoices, minWait : 0 .. MaxWait,
                         maxWait : 0 .. MaxWait] : c.minWait <= c.maxWait}
    /\ subscribed = TRUE
    /\ listening = TRUE
    /\ gatherers = <<>>
    /\ active = [r \in ReqIds |-> Idle]
    /\ timers = [r \in ReqIds |-> NoTimers]
    /\ published = {}
    /\ unsubs = <<>>
    /\ lastCall = NoCall
    /\ heard = [r \in ReqIds |-> EmptyResult]
    /\ late = FALSE
    /\ resolvedBy = [r \in ReqIds |-> None]

\* ------------------------------------------------------- completion handle
Settled(st) == st.promise \in {"fulfilled", "rejected"}

\* History: a step takes the promise out of pending.
Settles(before, after) == before.promise = "pending" /\ Settled(after)

\* deferred.resolve(v): the first transition out of pending wins.
Resolve(st, v) ==
    IF st.promise = "pending"
    THEN [st EXCEPT !.promise = "fulfilled", !.value = v]
    ELSE st

\* ------------------------------------------------------------- aggregator
\* Variant of Accepts: the guard left out.
AcceptsAlways == TRUE

\* The guard of the aggregator function: if (!aggregator.subscribed) reject.
Accepts == subscribed

\* The closure a fresh call builds: defer(), expects.slice(0), {}, false.
NewCall ==
    [promise |-> "pending", value |-> EmptyResult, missing |-> config.expects,
     result |-> EmptyResult, minTimeoutReached |-> FALSE,
     cleaned |-> FALSE]

\* What a refused call hands back: Promise.reject(Error(...)), whatever the
\* callback argument is; the callback is not used on this path.
Refusal(cb) ==
    [callback |-> cb, returned |-> "rejected", error |-> UnsubscribedError,
     cbError |-> None]

\* aggregator(data, callback), refused
AggregatorRefuse(cb) ==
    /\ ~Accepts
    /\ lastCall' = Refusal(cb)
    /\ UNCHANGED <<respVars, config, subscribed, listening, gatherers, active,
                   timers, published, unsubs, heard, late,
                   resolvedBy>>

\* aggregator(data, callback), accepted.  What it hands back is
\* defer.paradigm(deferred.promise, callback), which changes nothing here.
AggregatorAccept ==
    /\ Accepts
    /\ Len(gatherers) < MaxReq
    /\ LET id == Len(gatherers) + 1
       IN /\ active' = [active EXCEPT ![id] = NewCall]
          /\ timers' = [timers EXCEPT
                           ![id] = [min |-> "armed", max |-> "armed",
                                    minLeft |-> config.minWait,
                                    maxLeft |-> config.maxWait]]
          /\ published' = published \cup
                             {[dir |-> "request", fn |-> "agg", id |-> id]}
          /\ gatherers' = Append(gatherers, id)
    /\ UNCHANGED <<respVars, config, subscribed, listening, unsubs, lastCall,
                   heard, late,
                   resolvedBy>>

\* ----------------------------------------------------------------- timers
Wait(k) == IF k = "min" THEN config.minWait ELSE config.maxWait

\* Ticks left until the timer is due.
Left(r, k) == IF k = "min" THEN timers[r].minLeft ELSE timers[r].maxLeft

\* Order of setTimeout calls: per call the minWait timer, then the maxWait one.
SetOrder(r, k) == 2 * r + (IF k = "max" THEN 1 ELSE 0)

\* Timers run in order of expiry; timers of one duration run in the order
\* they were set.
Precedes(r2, k2, r, k) ==
    /\ timers[r2][k2] = "armed"
    /\ \/ Left(r2, k2) < Left(r, k)
       \/ Wait(k2) = Wait(k) /\ SetOrder(r2, k2) < SetOrder(r, k)

\* Variant of UnsubReady: the then() not waiting for the promises.
UnsubReadyAtOnce(u) == TRUE

\* Promise.all(promises) of an unsubscribe() call is fulfilled; each promise
\* is item.promise.catch(fnUndefined), fulfilled when item.promise settles.
UnsubReady(u) == \A r \in u.promises : Settled(active[r])

\* Promise reactions (microtasks) run before the next timer does.
MicrotaskPending ==
    \/ \E r \in ReqIds : Settled(active[r]) /\ ~active[r].cleaned
    \/ \E i \in 1 .. Len(unsubs) : ~unsubs[i].done /\ UnsubReady(unsubs[i])

TimerDue(r, k) ==
    /\ timers[r][k] = "armed"
    /\ Left(r, k) = 0
    /\ ~MicrotaskPending
    /\ \A r2 \in ReqIds : \A k2 \in {"min", "max"} : ~Precedes(r2, k2, r, k)

\* Variant of MinTimeoutFn: the flag set, the resolve left out.
MinTimeoutFnFlagOnly(st) == [st EXCEPT !.minTimeoutReached = TRUE]

\* The minWait callback.
MinTimeoutFn(st) ==
    LET st1 == [st EXCEPT !.minTimeoutReached = TRUE]
    IN IF st1.missing = <<>> /\ st1.promise = "pending"
       THEN Resolve(st1, st1.result)
       ELSE st1

\* Variant of MaxTimeoutFn: resolving only when nothing is missing.
MaxTimeoutFnIfComplete(st) ==
    IF st.promise = "pending" /\ st.missing = <<>>
    THEN Resolve(st, st.result)
    ELSE st

\* The maxWait callback.
MaxTimeoutFn(st) ==
    IF st.promise = "pending" THEN Resolve(st, st.result) ELSE st

MinTimer(r) ==
    /\ TimerDue(r, "min")
    /\ active' = [active EXCEPT ![r] = MinTimeoutFn(active[r])]
    /\ timers' = [timers EXCEPT ![r].min = "fired"]
    /\ resolvedBy' = [resolvedBy EXCEPT
                         ![r] = IF Settles(active[r], active'[r])
                                THEN "minWait" ELSE @]
    /\ UNCHANGED <<respVars, config, subscribed, listening, gatherers,
                   published, unsubs, lastCall, heard, late>>

MaxTimer(r) ==
    /\ TimerDue(r, "max")
    /\ active' = [active EXCEPT ![r] = MaxTimeoutFn(active[r])]
    /\ timers' = [timers EXCEPT ![r].max = "fired"]
    /\ resolvedBy' = [resolvedBy EXCEPT
                         ![r] = IF Settles(active[r], active'[r])
                                THEN "maxWait" ELSE @]
    /\ UNCHANGED <<respVars, config, subscribed, listening, gatherers,
                   published, unsubs, lastCall, heard, late>>

\* Time passes once every timer that is due has run.
Tick ==
    /\ \E r \in ReqIds : \E k \in {"min", "max"} : timers[r][k] = "armed"
    /\ \A r \in ReqIds : \A k \in {"min", "max"} :
           timers[r][k] = "armed" => Left(r, k) > 0
    /\ timers' = [r \in ReqIds |->
                     [timers[r] EXCEPT
                        !.minLeft = IF timers[r].min = "armed" THEN @ - 1
                                    ELSE @,
                        !.maxLeft = IF timers[r].max = "armed" THEN @ - 1
                                    ELSE @]]
    /\ UNCHANGED <<respVars, config, subscribed, listening, gatherers, active,
                   published, unsubs, lastCall, heard, late,
                   resolvedBy>>

\* --------------------------------------------------------------- gatherer
\* EventRecord.extractScatherRecords(event, filter): the records of the
\* event the filter accepts, in their order.  accepted is the set of records
\* for which the filter returns true.
ExtractScatherRecords(event, accepted) ==
    SelectSeq(event, LAMBDA rec : rec \in accepted)

\* Variant of StoreRecord: the result stored for expected senders only.
StoreRecordIfExpected(st, record) ==
    LET senderName == record.fn
        index == IndexOf(st.missing, senderName)
    IN IF index = 0 THEN st
       ELSE [st EXCEPT !.missing = Splice(st.missing, index),
                       !.result = [@ EXCEPT ![senderName] = record.msg]]

\* Variant of StoreRecord: index not tested; splice(-1, 1) takes the last
\* entry off.
StoreRecordUnchecked(st, record) ==
    LET senderName == record.fn
        index == IndexOf(st.missing, senderName)
    IN [st EXCEPT
           !.missing = Splice(st.missing,
                              IF index # 0 THEN index ELSE Len(st.missing)),
           !.result = [@ EXCEPT ![senderName] = record.msg]]

\* The body of records.forEach in gatherer, for one record.
StoreRecord(st, record) ==
    LET senderName == record.fn
        index == IndexOf(st.missing, senderName)
    IN [st EXCEPT
           !.missing = IF index # 0 THEN Splice(st.missing, index) ELSE @,
           !.result = [@ EXCEPT ![senderName] = record.msg]]

RECURSIVE ForEachRecord(_, _)
ForEachRecord(st, records) ==
    IF records = <<>> THEN st
    ELSE ForEachRecord(StoreRecord(st, Head(records)), Tail(records))

\* Variant of GathererResolves: minTimeoutReached not looked at.
GathererResolvesEarly(st) == st.missing = <<>>

\* Variant of GathererResolves: resolving left to the timers.
GathererLeavesToTimers(st) == FALSE

\* if (missing.length === 0 && minTimeoutReached) deferred.resolve(result)
GathererResolves(st) == st.missing = <<>> /\ st.minTimeoutReached

\* Variant of GathererSkips: the isPending() test left out.
GathererNeverSkips(st) == FALSE

\* if (!deferred.promise.isPending()) return;
GathererSkips(st) == st.promise # "pending"

\* Variant of ResponsesTo: the ScatherRequestId not compared.
ResponsesToAny(id) == {rec \in Records : rec.dir = "response"}

\* The records the filter of gatherer accepts: ScatherDirection is response
\* and ScatherRequestId is the id of the call's own event.
ResponsesTo(id) == {rec \in Records : rec.dir = "response" /\ rec.id = id}

\* gatherer(event) of the call with ScatherRequestId id
Gatherer(st, id, event) ==
    IF GathererSkips(st) THEN st
    ELSE LET records == ExtractScatherRecords(event, ResponsesTo(id))
             st1 == ForEachRecord(st, records)
         IN IF GathererResolves(st1) THEN Resolve(st1, st1.result) ELSE st1

\* History of a delivery: per sender, the latest reply of the event that
\* answers request id.
LatestReply(event, id, s, old) ==
    LET hits == {i \in 1 .. Len(event) :
                    /\ event[i].dir = "response"
                    /\ event[i].id = id
                    /\ event[i].fn = s}
    IN IF hits = {} THEN old
       ELSE event[CHOOSE i \in hits : \A j \in hits : j <= i].msg

Answers(event, id) ==
    \E i \in 1 .. Len(event) : event[i].dir = "response" /\ event[i].id = id

\* runGatherers(event), called by the subscription while it is registered
RunGatherers(event) ==
    /\ listening
    /\ active' = [r \in ReqIds |->
                     IF r \in Range(gatherers)
                     THEN Gatherer(active[r], r, event)
                     ELSE active[r]]
    /\ heard' = [r \in ReqIds |->
                    IF active[r].promise = "pending"
                    THEN [s \in Senders |->
                             LatestReply(event, r, s, heard[r][s])]
                    ELSE heard[r]]
    /\ late' = (\/ late
                \/ \E r \in ReqIds : Settled(active[r]) /\ Answers(event, r))
    /\ resolvedBy' = [r \in ReqIds |->
                         IF Settles(active[r], active'[r])
                         THEN "reply" ELSE resolvedBy[r]]
    /\ UNCHANGED <<respVars, config, subscribed, listening, gatherers, timers,
                   published, unsubs, lastCall>>

\* ------------------------------------------------------- settle reactions
\* deferred.promise.finally(...): gatherers.slice(index, 1) copies one entry
\* and leaves the array as it is.
RemoveActive(list, id) ==
    LET index == IndexOf(list, id)
    IN list

\* The reactions to a settled promise: the finally() above and, when the
\* call was given a callback, the callback.
SettleReactions(r) ==
    /\ Settled(active[r])
    /\ ~active[r].cleaned
    /\ gatherers' = RemoveActive(gatherers, r)
    /\ active' = [active EXCEPT ![r].cleaned = TRUE]
    /\ UNCHANGED <<respVars, config, subscribed, listening, timers, published,
                   unsubs, lastCall, heard, late,
                   resolvedBy>>

\* ------------------------------------------------------------ unsubscribe
\* unsubscribe(): collect the promise of every entry of gatherers.
Unsubscribe ==
    /\ Len(unsubs) < MaxUnsub
    /\ unsubs' = Append(unsubs,
                        [promises |-> Range(gatherers), done |-> FALSE])
    /\ UNCHANGED <<respVars, config, subscribed, listening, gatherers, active,
                   timers, published, lastCall, heard, late,
                   resolvedBy>>

\* Subscriptions.unsubscribe(responseArn, runGatherers)
SubscriptionsUnsubscribe == FALSE

\* The then() of Promise.all(promises)
UnsubscribeThen(i) ==
    /\ ~unsubs[i].done
    /\ UnsubReady(unsubs[i])
    /\ subscribed' = FALSE
    /\ listening' = SubscriptionsUnsubscribe
    /\ unsubs' = [unsubs EXCEPT ![i].done = TRUE]
    /\ UNCHANGED <<respVars, config, gatherers, active, timers, published,
                   lastCall, heard, late,
                   resolvedBy>>

\* -------------------------------------------------------------- responder
\* Records of the event handed to the responder: ScatherDirection,
\* ScatherRequestId, ScatherResponseArn and the message.
RespRecords ==
    {[dir |-> "request", id |-> 1, arn |-> "t1", msg |-> "p"],
     [dir |-> "request", id |-> 2, arn |-> "t2", msg |-> "q"],
     [dir |-> "response", id |-> 1, arn |-> "t1", msg |-> "p"]}

RespEvents == UNION {[1 .. n -> RespRecords] : n \in 0 .. MaxBatch}

\* What a handler does with one record, in order: first in the call itself
\* (sync), then after it has returned (async).
\*   "ok"      callback(null, data)        "ok2"   callback(null, other data)
\*   "err"     callback(Error, null)       "throw" throw Error
\*   "errData" callback(Error, data)       "return" return data
CallbackPlans ==
    {[sync |-> <<"ok">>, async |-> <<>>],
     [sync |-> <<"err">>, async |-> <<>>],
     [sync |-> <<"errData">>, async |-> <<>>],
     [sync |-> <<"throw">>, async |-> <<>>],
     [sync |-> <<"ok", "ok2">>, async |-> <<>>],
     [sync |-> <<"ok", "throw">>, async |-> <<>>],
     [sync |-> <<>>, async |-> <<"ok">>],
     [sync |-> <<>>, async |-> <<"err">>],
     [sync |-> <<>>, async |-> <<"ok", "err">>]}

ReturnPlans ==
    {[sync |-> <<"return">>, async |-> <<>>],
     [sync |-> <<"throw">>, async |-> <<>>]}

Plans == IF handlerTakesCallback THEN CallbackPlans ELSE ReturnPlans

\* The Error a handler makes for the message it was given.
ErrorFor(msg) == IF msg = "p" THEN "Error p" ELSE "Error q"

ErrOf(effect, msg) ==
    IF effect \in {"err", "errData"} THEN ErrorFor(msg) ELSE None

DataOf(effect, msg) ==
    CASE effect \in {"ok", "errData", "return"} -> <<"re", msg>>
      [] effect = "ok2" -> <<"re2", msg>>
      [] OTHER -> None

\* deferred.reject(e): the first transition out of pending wins.
Reject(st, e) ==
    IF st.promise = "pending"
    THEN [st EXCEPT !.promise = "rejected", !.value = e]
    ELSE st

\* Variant of InnerCallback: the err argument not looked at.
InnerCallbackIgnoresErr(d, err, data) == Resolve(d, data)

\* function (err, data) { if (err) return deferred.reject(err);
\*                        deferred.resolve(data); }
InnerCallback(d, err, data) ==
    IF err # None THEN Reject(d, err) ELSE Resolve(d, data)

\* The handler's effects on the deferred, up to a throw or its return.
RECURSIVE RunHandler(_, _, _)
RunHandler(d, effects, msg) ==
    IF effects = <<>> THEN [deferred |-> d, threw |-> FALSE]
    ELSE LET effect == Head(effects)
         IN CASE effect = "throw" -> [deferred |-> d, threw |-> TRUE]
              [] effect = "return" ->
                     [deferred |-> Resolve(d, DataOf(effect, msg)),
                      threw |-> FALSE]
              [] OTHER ->
                     RunHandler(InnerCallback(d, ErrOf(effect, msg),
                                              DataOf(effect, msg)),
                                Tail(effects), msg)

\* Variant of Catches: the handler called outside a try.
CatchesNothing == FALSE

\* try { handler(...) } catch (err) { deferred.reject(err); }
Catches == TRUE

\* The body of records.forEach, for one record: the deferred it leaves and
\* whether the handler's error escaped it.
HandleRecord(record, plan) ==
    LET run == RunHandler([promise |-> "pending", value |-> None],
                          plan.sync, record.msg)
    IN IF run.threw
       THEN IF Catches
            THEN [deferred |-> Reject(run.deferred, ErrorFor(record.msg)),
                  escaped |-> FALSE]
            ELSE [deferred |-> run.deferred, escaped |-> TRUE]
       ELSE [deferred |-> run.deferred, escaped |-> FALSE]

\* records.forEach: the deferreds pushed on promises, until an error escapes.
RECURSIVE ForEachRequest(_, _, _)
ForEachRequest(recs, plans, acc) ==
    IF recs = <<>> \/ acc.escaped THEN acc
    ELSE LET h == HandleRecord(Head(recs), Head(plans))
         IN ForEachRequest(Tail(recs), Tail(plans),
                [promises |-> Append(acc.promises, h.deferred),
                 escaped |-> h.escaped])

\* Promise.all(promises): rejected with the first rejection, fulfilled once
\* every promise is.  first is the rejected promise to go by.
PromiseAll(all, promises, first) ==
    IF all.promise # "pending" THEN all
    ELSE IF first # 0
         THEN [promise |-> "rejected", value |-> promises[first].value]
    ELSE IF \A i \in 1 .. Len(promises) : promises[i].promise = "fulfilled"
         THEN [promise |-> "fulfilled",
               value |-> [i \in 1 .. Len(promises) |-> promises[i].value]]
    ELSE all

\* Variant of FirstRejected: the last rejected promise taken.
LastRejected(promises) ==
    IF \E i \in 1 .. Len(promises) : promises[i].promise = "rejected"
    THEN CHOOSE i \in 1 .. Len(promises) :
             /\ promises[i].promise = "rejected"
             /\ \A j \in (i + 1) .. Len(promises) :
                    promises[j].promise # "rejected"
    ELSE 0

FirstRejected(promises) ==
    IF \E i \in 1 .. Len(promises) : promises[i].promise = "rejected"
    THEN CHOOSE i \in 1 .. Len(promises) :
             /\ promises[i].promise = "rejected"
             /\ \A j \in 1 .. (i - 1) : promises[j].promise # "rejected"
    ELSE 0

\* The returned function called with a context that fails its validation.
ResponseInvalidContext(hasCallback) ==
    /\ ~entry.called
    /\ entry' = [NoEntry EXCEPT !.called = TRUE, !.hasCallback = hasCallback,
                                !.returned = "threw"]
    /\ UNCHANGED <<aggVars, handlerTakesCallback, matched, deferreds, invoked,
                   later, reacted, signalled, replies, promiseAll>>

\* The returned function: function (event, context, callback)
Response(event, hasCallback) ==
    /\ ~entry.called
    /\ LET isRequest == {r \in RespRecords : r.dir = "request"}
           recs == ExtractScatherRecords(event, isRequest)
       IN \E plans \in [1 .. Len(recs) -> Plans] :
            LET done == ForEachRequest(recs, plans,
                            [promises |-> <<>>, escaped |-> FALSE])
                n == Len(done.promises)
            IN /\ matched' = recs
               /\ deferreds' = done.promises
               /\ invoked' = [i \in 1 .. Len(recs) |->
                                 IF i <= n THEN 1 ELSE 0]
               /\ later' = [i \in 1 .. n |-> plans[i].async]
               /\ reacted' = [i \in 1 .. n |-> FALSE]
               /\ signalled' = [i \in 1 .. n |-> plans[i].sync]
               /\ promiseAll' =
                      IF done.escaped THEN Unset
                      ELSE PromiseAll([promise |-> "pending", value |-> None],
                                      done.promises,
                                      FirstRejected(done.promises))
               /\ entry' = [NoEntry EXCEPT
                      !.called = TRUE,
                      !.hasCallback = hasCallback,
                      !.returned =
                          IF done.escaped THEN "threw"
                          ELSE IF handlerTakesCallback THEN "undefined"
                          ELSE "promise"]
    /\ UNCHANGED <<aggVars, handlerTakesCallback, replies>>

\* Variant of ReplyEvent: the ScatherRequestId attribute left out.
ReplyEventWithoutId(record, message) ==
    [topic |-> record.arn, dir |-> "response", fn |-> "resp",
     arn |-> record.arn, id |-> 0, msg |-> message]

\* The response event of a record.
ReplyEvent(record, message) ==
    [topic |-> record.arn, dir |-> "response", fn |-> "resp",
     arn |-> record.arn, id |-> record.id, msg |-> message]

\* deferred.promise.then(function (message) { ... fire(PUBLISH, event) })
PublishThen(i) ==
    /\ deferreds[i].promise \in {"fulfilled", "rejected"}
    /\ ~reacted[i]
    /\ reacted' = [reacted EXCEPT ![i] = TRUE]
    /\ replies' =
           IF deferreds[i].promise = "fulfilled"
           THEN Append(replies,
                       [of |-> i,
                        event |-> ReplyEvent(matched[i], deferreds[i].value)])
           ELSE replies
    /\ UNCHANGED <<aggVars, handlerTakesCallback, entry, matched, deferreds,
                   invoked, later, signalled, promiseAll>>

\* The handler calls its callback after it has returned.
HandlerCallsBack(i) ==
    /\ later[i] # <<>>
    /\ LET effect == Head(later[i])
           d == InnerCallback(deferreds[i], ErrOf(effect, matched[i].msg),
                              DataOf(effect, matched[i].msg))
           promises == [deferreds EXCEPT ![i] = d]
       IN /\ deferreds' = promises
          /\ promiseAll' =
                 PromiseAll(promiseAll, promises,
                            IF d.promise = "rejected" /\ d # deferreds[i]
                            THEN i ELSE 0)
    /\ later' = [later EXCEPT ![i] = Tail(@)]
    /\ signalled' = [signalled EXCEPT ![i] = Append(@, Head(later[i]))]
    /\ UNCHANGED <<aggVars, handlerTakesCallback, entry, matched, invoked,
                   reacted, replies>>

\* if (handlerTakesCallback) promise.then(callback(null, data),
\*                                        callback(err, null))
\* else return promise
Completes ==
    /\ promiseAll.promise \in {"fulfilled", "rejected"}
    /\ ~entry.settled
    /\ entry' =
           IF handlerTakesCallback /\ entry.hasCallback
           THEN [entry EXCEPT
                    !.settled = TRUE,
                    !.cbCalls = @ + 1,
                    !.cbErr = IF promiseAll.promise = "rejected"
                              THEN promiseAll.value ELSE None,
                    !.cbData = IF promiseAll.promise = "rejected"
                               THEN None ELSE promiseAll.value,
                    !.cbNull = (promiseAll.promise = "rejected")]
           ELSE [entry EXCEPT !.settled = TRUE]
    /\ UNCHANGED <<aggVars, handlerTakesCallback, matched, deferreds, invoked,
                   later, reacted, signalled, replies, promiseAll>>

\* ------------------------------------------------------------------ claims
Accepted == Range(gatherers)

Expected == Range(config.expects)

PublishedIds == {e.id : e \in published}

\* C1, as stated: the keys of every request's resultMap are within expects,
\* whatever replies were delivered.
C1_KeysWithinExpects ==
    \A r \in ReqIds : Keys(active[r].result) \subseteq Expected

\* C1, amended: the keys of a request's resultMap are the senders whose
\* reply to it was delivered while it was pending, listed in expects or not;
\* the keys that are in expects are the expected senders no longer missing.
C1_KeysAreSendersHeard ==
    \A r \in Accepted :
        /\ Keys(active[r].result) = Keys(heard[r])
        /\ Keys(active[r].result) \cap Expected =
               Expected \ Range(active[r].missing)

C1_Witness ==
    \E r \in Accepted :
        /\ Keys(active[r].result) \ Expected # {}
        /\ Keys(active[r].result) \cap Expected # {}

\* C2: a request's promise is not settled before its minWait timer has run,
\* also when every expected sender replied earlier.
C2_NotSettledBeforeMinWait ==
    \A r \in ReqIds : Settled(active[r]) => timers[r].min = "fired"

C2_Witness ==
    \E r \in Accepted :
        /\ config.expects # <<>>
        /\ active[r].missing = <<>>
        /\ active[r].promise = "pending"
        /\ timers[r].min = "armed"

\* C3: once the maxWait timer of a request has run the request is fulfilled,
\* never rejected or pending, with the replies heard until it settled.
C3_SettledByMaxWait ==
    \A r \in ReqIds :
        timers[r].max = "fired" =>
            /\ active[r].promise = "fulfilled"
            /\ active[r].value = heard[r]

C3_Witness ==
    \E r \in Accepted :
        /\ timers[r].max = "fired"
        /\ active[r].missing # <<>>
        /\ active[r].promise = "fulfilled"
        /\ active[r].value # EmptyResult

\* C4: no step changes the resultMap or the missing list of a request whose
\* promise has settled.
C4_SettledIsFrozen ==
    [][\A r \in ReqIds :
           Settled(active[r]) =>
               /\ active'[r].result = active[r].result
               /\ active'[r].missing = active[r].missing]_vars

C4_Witness ==
    /\ late
    /\ \E r \in Accepted : Settled(active[r]) /\ active[r].missing # <<>>

\* C5, as stated: with expects empty a request settles when its minWait
\* timer runs, and with an empty resultMap.
C5_EmptyExpectsEmptyResult ==
    config.expects = <<>> =>
        \A r \in Accepted :
            /\ timers[r].min = "fired" <=> active[r].promise = "fulfilled"
            /\ Settled(active[r]) => active[r].value = EmptyResult

\* C5, amended: with expects empty a request is fulfilled exactly when its
\* minWait timer runs, never later, with the replies heard before that.
C5_EmptyExpectsSettlesAtMinWait ==
    config.expects = <<>> =>
        \A r \in Accepted :
            /\ timers[r].min = "fired" <=> active[r].promise = "fulfilled"
            /\ Settled(active[r]) => active[r].value = heard[r]

C5_Witness ==
    /\ config.expects = <<>>
    /\ \E r \in Accepted :
           /\ active[r].promise = "fulfilled"
           /\ timers[r].max = "armed"
           /\ active[r].value # EmptyResult

\* C6: once unsubscribe() has been called, and while requests it waits for
\* are still pending, no further call is accepted: the requests published
\* are those unsubscribe() found in gatherers.
C6_NoAcceptOnceUnsubscribeCalled ==
    (/\ unsubs # <<>>
     /\ \E r \in unsubs[1].promises : active[r].promise = "pending") =>
        PublishedIds \subseteq unsubs[1].promises

C8_RefusedAfterUnsubscribe ==
    [][(\E i \in 1 .. Len(unsubs) : unsubs[i].done) =>
           /\ ~subscribed'
           /\ published' = published
           /\ gatherers' = gatherers
           /\ \A r \in ReqIds : \A k \in {"min", "max"} :
                  timers'[r][k] = "armed" => timers[r][k] = "armed"
           /\ lastCall' # lastCall =>
                  /\ lastCall'.returned = "rejected"
                  /\ lastCall'.error = UnsubscribedError]_vars

C8_Witness ==
    /\ \E i \in 1 .. Len(unsubs) : unsubs[i].done
    /\ lastCall.returned = "rejected"
    /\ Len(gatherers) < MaxReq

\* C9: a call refused while given a callback hands the unsubscribed error to
\* the callback and returns no rejected promise.
C9_RefusalThroughCallback ==
    (lastCall.error = UnsubscribedError /\ lastCall.callback) =>
        /\ lastCall.cbError = UnsubscribedError
        /\ lastCall.returned # "rejected"

Replied(i) ==
    \E k \in 1 .. Len(replies) :
        replies[k] = [of |-> i,
                      event |-> ReplyEvent(matched[i], deferreds[i].value)]

\* C10: the handler is called for every request record of the batch, and
\* every record whose handling is fulfilled has its reply published, or
\* about to be, whatever became of the other records.
C10_FailureIsIsolated ==
    \A i \in 1 .. Len(matched) :
        /\ invoked[i] = 1
        /\ i <= Len(deferreds)
        /\ deferreds[i].promise = "fulfilled" =>
               IF reacted[i] THEN Replied(i) ELSE ENABLED PublishThen(i)

C10_Witness ==
    /\ Len(matched) = 3
    /\ deferreds[1].promise = "rejected"
    /\ deferreds[2].promise = "fulfilled" /\ Replied(2)
    /\ deferreds[3].promise = "fulfilled" /\ Replied(3)
    /\ \A i \in 1 .. 3 : reacted[i]
    /\ entry.settled

\* The replies fired for record i of the batch.
RepliesOf(i) == {k \in 1 .. Len(replies) : replies[k].of = i}

IsFailure(effect) == effect \in {"err", "errData", "throw"}

\* The handler of record i has raised or passed an error to its callback.
Failed(i) == \E k \in 1 .. Len(signalled[i]) : IsFailure(signalled[i][k])

\* The first thing the handler of record i did was to raise or to pass an
\* error to its callback.
FailedFirst(i) == signalled[i] # <<>> /\ IsFailure(Head(signalled[i]))

\* C11, as stated: no reply is published for a record whose handler raised
\* or passed an error to its callback at any point of its handling.
C11_NoReplyIfAnyFailure ==
    \A i \in 1 .. Len(deferreds) : Failed(i) => RepliesOf(i) = {}

\* C11, amended: a record whose handler first raises or first passes an
\* error to its callback has its deferred rejected with that error and no
\* reply is ever published for it; a failure signalled after a result was
\* delivered is dropped by the deferred.
C11_NoReplyForRejected ==
    \A i \in 1 .. Len(deferreds) :
        /\ FailedFirst(i) =>
               /\ deferreds[i].promise = "rejected"
               /\ deferreds[i].value = ErrorFor(matched[i].msg)
        /\ deferreds[i].promise = "rejected" =>
               /\ FailedFirst(i)
               /\ RepliesOf(i) = {}

C11_Witness ==
    \E i, j, k \in 1 .. Len(deferreds) :
        /\ signalled[i] = <<"errData">> /\ reacted[i]
        /\ signalled[j] = <<"throw">> /\ reacted[j]
        /\ signalled[k] = <<"ok", "err">> /\ reacted[k]
        /\ RepliesOf(k) # {}
        /\ entry.settled

\* C12: a record whose handler succeeds (its deferred is fulfilled) gets one
\* reply and no more, however often the handler calls its callback: fired on
\* the record's ScatherResponseArn, with direction response, the responder's
\* functionName, the record's ScatherRequestId and the handler's first result.
C12_OneReplyPerSuccess ==
    \A i \in 1 .. Len(deferreds) :
        /\ Cardinality(RepliesOf(i)) <= 1
        /\ (signalled[i] # <<>> /\ ~FailedFirst(i)) =>
               deferreds[i].promise = "fulfilled"
        /\ (deferreds[i].promise = "fulfilled" /\ reacted[i]) =>
               /\ Cardinality(RepliesOf(i)) = 1
               /\ \A k \in RepliesOf(i) :
                      /\ replies[k].event.topic = matched[i].arn
                      /\ replies[k].event.dir = "response"
                      /\ replies[k].event.fn = "resp"
                      /\ replies[k].event.id = matched[i].id
                      /\ replies[k].event.msg =
                             DataOf(Head(signalled[i]), matched[i].msg)

C12_Witness ==
    \E i, j \in 1 .. Len(deferreds) :
        /\ signalled[i] = <<"ok", "ok2">> /\ reacted[i]
        /\ matched[i].id = 1
        /\ Cardinality(RepliesOf(i)) = 1
        /\ signalled[j] = <<"ok", "err">> /\ reacted[j]
        /\ matched[j].id = 2
        /\ Cardinality(RepliesOf(j)) = 1

\* The call of the returned function has completed: its callback was called
\* or the promise it returned has settled.
Completed ==
    \/ entry.cbCalls > 0
    \/ entry.returned = "promise" /\ entry.settled

\* C13: the call of the returned function completes only once the deferred
\* of every request record of the batch has settled.
C13_CompletesAfterAllSettled ==
    Completed =>
        \A i \in 1 .. Len(deferreds) : deferreds[i].promise # "pending"

Rejected == {i \in 1 .. Len(deferreds) : deferreds[i].promise = "rejected"}

\* C14, as stated: with a callback-style handler and a callback given to the
\* call, the callback gets the error of every record whose handler raised or
\* passed an error, and null as data.
C14_EveryFailureReachesCallback ==
    (handlerTakesCallback /\ entry.hasCallback /\ entry.settled) =>
        \A i \in 1 .. Len(deferreds) :
            Failed(i) =>
                /\ entry.cbErr = ErrorFor(matched[i].msg)
                /\ entry.cbNull

\* C14, amended: with a callback-style handler and a callback given to the
\* call, a record whose handler first passes an error (with data or not) or
\* first raises rejects the batch at once; the callback is then called once,
\* with null as data and the error of the record that was rejected first.
C14_FirstFailureReachesCallback ==
    /\ [](handlerTakesCallback /\ entry.hasCallback =>
            /\ (\E i \in 1 .. Len(deferreds) : FailedFirst(i)) <=>
                   promiseAll.promise = "rejected"
            /\ promiseAll.promise = "rejected" =>
                   IF entry.settled
                   THEN /\ entry.cbCalls = 1
                        /\ entry.cbErr = promiseAll.value
                        /\ entry.cbNull
                   ELSE ENABLED Completes)
    /\ [][(Rejected = {} /\ Rejected' # {}) =>
              LET first == CHOOSE i \in Rejected' : \A j \in Rejected' : i <= j
              IN promiseAll'.value = ErrorFor(matched'[first].msg)]_vars
    /\ [][promiseAll.promise = "rejected" => promiseAll' = promiseAll]_vars

C14_Witness ==
    /\ handlerTakesCallback /\ entry.hasCallback /\ entry.settled
    /\ Len(deferreds) = 2
    /\ signalled[1] = <<"errData">> /\ matched[1].msg = "q"
    /\ signalled[2] = <<"throw">> /\ matched[2].msg = "p"
    /\ entry.cbCalls = 1
    /\ entry.cbErr = "Error q"
    /\ entry.cbNull

\* C15: the call of the returned function answers through its callback, once
\* and returning nothing, when it was given one, and returns a promise when
\* it was given none, whatever the number of parameters of the handler.
C15_ConventionByCallbackSupplied ==
    (entry.called /\ entry.returned # "threw") =>
        IF entry.hasCallback
        THEN /\ entry.returned = "undefined"
             /\ entry.settled => entry.cbCalls = 1
        ELSE entry.returned = "promise"

\* C16: a request is fulfilled as soon as nothing is missing and its minWait
\* timer has run: by the delivery of the last expected reply when that comes
\* after minWait, by the minWait timer when the replies came before it; the
\* maxWait timer fulfills only requests that still miss a reply.  A request
\* fulfilled by a delivery or by the minWait timer has every expected sender
\* in its value.
C16_ResolvesOnceCompleteAfterMinWait ==
    \A r \in Accepted :
        /\ (active[r].missing = <<>> /\ timers[r].min = "fired") =>
               active[r].promise = "fulfilled"
        /\ resolvedBy[r] \in {"reply", "minWait"} =>
               /\ active[r].missing = <<>>
               /\ timers[r].min = "fired"
               /\ Expected \subseteq Keys(active[r].value)
               /\ active[r].value = heard[r]
        /\ resolvedBy[r] = "maxWait" => active[r].missing # <<>>

C16_Witness ==
    /\ config.expects = <<"A", "B">>
    /\ \E r1, r2 \in Accepted :
           /\ resolvedBy[r1] = "reply"
           /\ timers[r1].max = "armed" /\ timers[r1].maxLeft > 0
           /\ resolvedBy[r2] = "minWait"
           /\ timers[r2].max = "armed"
           /\ Keys(active[r2].value) = {"A", "B"}

\* C17: with heard[r] the response records carrying the id of request r
\* that were delivered while r was pending, a step changes the resultMap or
\* the missing list of request r, or settles it without a timer running,
\* only if r is pending and the step adds to heard[r]: events holding only
\* request records, or replies to other, settled or unknown requests, change
\* no request.
C17_OnlyOwnRepliesChangeARequest ==
    [][\A r \in ReqIds :
           (/\ active[r].promise # "unset"
            /\ \/ active'[r].result # active[r].result
               \/ active'[r].missing # active[r].missing
               \/ Settles(active[r], active'[r]) /\ timers' = timers) =>
               /\ active[r].promise = "pending"
               /\ heard'[r] # heard[r]
               /\ \A r2 \in ReqIds \ {r} :
                      heard'[r2] = heard[r2] => active'[r2] = active[r2]]_vars

C17_Witness ==
    /\ active[1].promise = "pending" /\ active[2].promise = "pending"
    /\ Keys(active[1].result) = {"A"}
    /\ Keys(active[2].result) = {"B"}
    /\ Range(active[1].missing) = {"B"}
    /\ Range(active[2].missing) = {"A"}

\* C18: once the finally() of a settled request has run, the request has no
\* entry in gatherers.
C18_SettledEntriesAreRemoved ==
    \A r \in ReqIds : active[r].cleaned => r \notin Range(gatherers)

\* C19: the missing list of a request starts as expects and from then on
\* only loses entries: a step takes off it nothing but senders whose first
\* reply to the request it delivers, so a second reply of a sender and a
\* reply of a sender not in the list take nothing off.
C19_MissingOnlyShrinks ==
    [][\A r \in ReqIds :
           IF active[r].promise = "unset"
           THEN active'[r].promise # "unset" =>
                    active'[r].missing = config.expects
           ELSE /\ Len(active'[r].missing) <= Len(active[r].missing)
                /\ active'[r].missing =
                       SelectSeq(active[r].missing,
                                 LAMBDA s : s \in Range(active'[r].missing))
                /\ Range(active[r].missing) \ Range(active'[r].missing)
                       \subseteq Keys(heard'[r]) \ Keys(heard[r])]_vars

C19_Witness ==
    /\ config.expects = <<"A">>
    /\ \E r1, r2 \in Accepted :
           /\ active[r1].promise = "pending"
           /\ Keys(heard[r1]) = {"B"}
           /\ active[r1].missing = <<"A">>
           /\ active[r2].promise = "pending"
           /\ Keys(heard[r2]) = {"A", "B"}
           /\ active[r2].missing = <<>>

\* C20: while an accepted request is pending, runGatherers is registered for
\* the response topic.
C20_PendingRequestsAreListenedFor ==
    \A r \in Accepted : active[r].promise = "pending" => listening

Next ==
    \/ \E cb \in BOOLEAN : AggregatorRefuse(cb)
    \/ AggregatorAccept
    \/ \E r \in ReqIds : MinTimer(r)
    \/ \E r \in ReqIds : MaxTimer(r)
    \/ Tick
    \/ \E event \in Events : RunGatherers(event)
    \/ \E r \in ReqIds : SettleReactions(r)
    \/ Unsubscribe
    \/ \E i \in 1 .. Len(unsubs) : UnsubscribeThen(i)

Spec == Init /\ [][Next]_vars

\* The responder on its own: the handler's shape is fixed when it is wrapped.
InitR ==
    /\ handlerTakesCallback \in BOOLEAN
    /\ RespIdle
    /\ config = [expects |-> <<>>, minWait |-> 0, maxWait |-> 0]
    /\ subscribed = TRUE
    /\ listening = TRUE
    /\ gatherers = <<>>
    /\ active = [r \in ReqIds |-> Idle]
    /\ timers = [r \in ReqIds |-> NoTimers]
    /\ published = {}
    /\ unsubs = <<>>
    /\ lastCall = NoCall
    /\ heard = [r \in ReqIds |-> EmptyResult]
    /\ late = FALSE
    /\ resolvedBy = [r \in ReqIds |-> None]

NextR ==
    \/ \E hasCallback \in BOOLEAN : ResponseInvalidContext(hasCallback)
    \/ \E event \in RespEvents : \E hasCallback \in BOOLEAN :
           Response(event, hasCallback)
    \/ \E i \in 1 .. Len(deferreds) : PublishThen(i)
    \/ \E i \in 1 .. Len(deferreds) : HandlerCallsBack(i)
    \/ Completes

SpecR == InitR /\ [][NextR]_vars
====
